---- MODULE Spec2Model ----
(***************************************************************************)
(* State-machine model of the sparse matrix of                             *)
(* packages/runtime/sequence/src/sparsematrix.ts: the two segment variants *)
(* (PaddingSegment, RunSegment), the row-major position addressing and the *)
(* SparseMatrix facade over the ordered segment chain.                     *)
(*                                                                         *)
(* Seven specifications share the variables:                               *)
(*   SpecSeg  one segment under construction/append/removeRange/split/     *)
(*            clone/setTag, as the sequence engine invokes them;           *)
(*   SpecPos  rowColToPosition / positionToRowCol on drawn inputs;         *)
(*   Spec     the facade operations on the segment chain;                  *)
(*   SpecJson the segments' serialized records written and read back;      *)
(*   SpecMove one insertCols/removeCols call, sub-step by sub-step;        *)
(*   SpecClone a run segment and its clone, each mutated after the clone;  *)
(*   SpecDoc   the event routing of DocumentService.                       *)
(***************************************************************************)
EXTENDS Integers, Sequences, FiniteSets, TLC

VARIABLES seg, other, prevSeg, segOp,
          posIn, posOut,
          chain, prevChain, last, steps,
          source, json, loaded,
          move,
          cloned,
          doc

segVars == <<seg, other, prevSeg, segOp>>
posVars == <<posIn, posOut>>
matVars == <<chain, prevChain, last, steps>>
jsonVars == <<source, json, loaded>>
moveVars == <<move>>
cloneVars == <<cloned>>
docVars == <<doc>>
vars == <<seg, other, prevSeg, segOp, posIn, posOut, chain, prevChain, last, steps,
          source, json, loaded, move, cloned, doc>>

----------------------------------------------------------------------------
(* Bounds of the model.                                                    *)

\* longest value list handed to the RunSegment constructor / setItems
MaxItems == 2
\* longest run segment the segment-level specification grows by append
MaxRunLen == 3
\* largest padding length of the segment-level specification
MaxPad == 3
\* most rows the modelled matrix holds
MaxRows == 2
\* most rows/columns inserted or removed by one facade call
MaxCount == 2
\* facade operations per behaviour
MaxOps == 3
MaxCloneOps == 2

----------------------------------------------------------------------------
(* Values.  JavaScript's undefined is the string "undefined"; cell values  *)
(* and tags are drawn from small sets of other strings.                    *)

Undefined == "undefined"
Values == {"a", "b"}
Tags == {"t", Undefined}
PropertySets == {Undefined, "p"}
\* provenance: UniversalSequenceNumber = 0, LocalClientId = -1 in merge-tree
UniversalSequenceNumber == 0
LocalClientId == -1
Seqs == {UniversalSequenceNumber, 1}
ClientIds == {LocalClientId, 1}

Min(a, b) == IF a < b THEN a ELSE b
Max(a, b) == IF a > b THEN a ELSE b

----------------------------------------------------------------------------
(* Array primitives of the language, as the code uses them.                *)

\* Array.prototype.slice(start, end) for 0 <= start; end clamps to length
Slice(s, start, end) ==
    LET e == Min(end, Len(s))
        b == Min(start, e)
    IN  [i \in 1..(e - b) |-> s[b + i]]

\* Array.prototype.splice(start, deleteCount, ...ins): start and deleteCount
\* clamp to the array
Splice(s, start, deleteCount, ins) ==
    LET b == Min(start, Len(s))
        d == Min(Max(deleteCount, 0), Len(s) - b)
    IN  Slice(s, 0, b) \o ins \o Slice(s, b + d, Len(s))

\* assignment to Array.length: truncates, or extends with empty slots
SetLength(s, n) ==
    [i \in 1..n |-> IF i <= Len(s) THEN s[i] ELSE Undefined]

\* new Array(n).fill(undefined)
FillUndefined(n) == [i \in 1..n |-> Undefined]

----------------------------------------------------------------------------
(* Segments.  One record shape for both variants: a padding segment keeps  *)
(* no items and no tags (the fields are absent in the code).  localRefs is  *)
(* the set of offsets at which local references are anchored.              *)

NoSegment ==
    [type |-> Undefined, cachedLength |-> 0, items |-> <<>>, tags |-> <<>>,
     seq |-> UniversalSequenceNumber, clientId |-> LocalClientId,
     properties |-> Undefined, localRefs |-> {}]

\* the error of PaddingSegment.append ("can only append padding segment")
InvalidAppend == "InvalidAppend"

PaddingSegment_typeString == "PaddingSegment"
RunSegment_typeString == "RunSegment"

PaddingSegment_is(segment) == segment.type = PaddingSegment_typeString
RunSegment_is(segment) == segment.type = RunSegment_typeString

\* BaseSegment.cloneInto: provenance and a copy of the properties
cloneInto(this, b) ==
    [b EXCEPT !.seq = this.seq, !.clientId = this.clientId,
              !.properties = this.properties]

\* new PaddingSegment(size, seq, clientId)
PaddingSegment(size, seq, clientId) ==
    [type |-> PaddingSegment_typeString, cachedLength |-> size,
     items |-> <<>>, tags |-> <<>>,
     seq |-> seq, clientId |-> clientId, properties |-> Undefined,
     localRefs |-> {}]

PaddingSegment_clone(this, start, end) ==
    cloneInto(this, PaddingSegment(this.cachedLength, this.seq, this.clientId))

PaddingSegment_canAppend(this, segment) == PaddingSegment_is(segment)

\* BaseSegment.appendLocalRefs: the argument's local references move to the
\* receiver, their offsets raised by the receiver's current length
appendLocalRefs(this, other_) ==
    [this EXCEPT !.localRefs =
        this.localRefs \cup {r + this.cachedLength : r \in other_.localRefs}]

\* 'if (!PaddingSegment.is(segment)) throw': the first statement of append
PaddingSegment_append_throws(this, segment) == ~PaddingSegment_is(segment)

\* mutant: the length grows before the local references are rebased
PaddingSegment_append_growFirst(this, segment) ==
    LET grown == [this EXCEPT !.cachedLength = this.cachedLength + segment.cachedLength]
    IN  appendLocalRefs(grown, segment)

\* the receiver after append, for an argument append does not throw on
PaddingSegment_append(this, segment) ==
    LET withRefs == appendLocalRefs(this, segment)
    IN  [withRefs EXCEPT !.cachedLength = withRefs.cachedLength + segment.cachedLength]

\* mutant: the flag compares the removed count with the length already reduced
PaddingSegment_removeRange_flagAfter(this, start, end) ==
    LET len == this.cachedLength - (end - start)
    IN  [this |-> [this EXCEPT !.cachedLength = len], ret |-> (end - start = len)]

\* mutant: the flag is read from the length before the subtraction
PaddingSegment_removeRange_flagBefore(this, start, end) ==
    LET len == this.cachedLength - (end - start)
    IN  [this |-> [this EXCEPT !.cachedLength = len], ret |-> (this.cachedLength = 0)]

\* [this, ret]: the mutated segment and the returned flag
PaddingSegment_removeRange(this, start, end) ==
    LET len == this.cachedLength - (end - start)
    IN  [this |-> [this EXCEPT !.cachedLength = len], ret |-> (len = 0)]

\* mutant: the sibling is built without the receiver's provenance
PaddingSegment_createSplitSegmentAt_noProvenance(this, pos) ==
    LET leftLength == pos
        rightLength == this.cachedLength - pos
    IN  [this |-> [this EXCEPT !.cachedLength = leftLength],
         ret |-> PaddingSegment(rightLength, UniversalSequenceNumber, LocalClientId)]

\* [this, ret]: the mutated segment and the returned sibling
PaddingSegment_createSplitSegmentAt(this, pos) ==
    LET leftLength == pos
        rightLength == this.cachedLength - pos
    IN  [this |-> [this EXCEPT !.cachedLength = leftLength],
         ret |-> PaddingSegment(rightLength, this.seq, this.clientId)]

\* SubSequence: the base class of RunSegment: items and the cached length
SubSequence(items, seq, clientId) ==
    [type |-> RunSegment_typeString, cachedLength |-> Len(items),
     items |-> items, tags |-> <<>>,
     seq |-> seq, clientId |-> clientId, properties |-> Undefined,
     localRefs |-> {}]

SubSequence_canAppend(this, segment) == RunSegment_is(segment)

SubSequence_append(this, segment) ==
    LET items == this.items \o segment.items
    IN  [this EXCEPT !.items = items, !.cachedLength = Len(items)]

SubSequence_removeRange(this, start, end) ==
    LET items == Slice(this.items, 0, start) \o Slice(this.items, end, Len(this.items))
    IN  [this |-> [this EXCEPT !.items = items, !.cachedLength = Len(items)],
         ret |-> (Len(items) = 0)]

\* mutant: the constructor leaves the tag array empty
RunSegment_noFill(items, seq, clientId) ==
    [SubSequence(items, seq, clientId) EXCEPT !.tags = <<>>]

\* new RunSegment(items, seq, clientId)
RunSegment(items, seq, clientId) ==
    [SubSequence(items, seq, clientId) EXCEPT !.tags = FillUndefined(Len(items))]

\* 'if (this.tags)': a run segment carries a tag array, a padding segment none
HasTags(segment) == RunSegment_is(segment)

RunSegment_clone(this, start, end) ==
    LET b == RunSegment(Slice(this.items, start, end), this.seq, this.clientId)
        b2 == IF HasTags(this)
              THEN [b EXCEPT !.tags = Slice(this.tags, start, end)]
              ELSE b
    IN  cloneInto(this, b2)

\* mutant: the argument's tags are spliced in at the front
RunSegment_append_tagsAtFront(this, segment) ==
    LET sup == SubSequence_append(this, segment)
    IN  IF HasTags(segment) /\ HasTags(this)
        THEN [sup EXCEPT !.tags = Splice(this.tags, 0, 0, segment.tags)]
        ELSE sup

RunSegment_append(this, segment) ==
    LET sup == SubSequence_append(this, segment)
    IN  IF HasTags(segment) /\ HasTags(this)
        THEN [sup EXCEPT !.tags = Splice(this.tags, Len(sup.items), 0, segment.tags)]
        ELSE sup

\* mutant: the tags of the removed range are left in the tag array
RunSegment_removeRange_keepTags(this, start, end) ==
    SubSequence_removeRange(this, start, end)

RunSegment_removeRange(this, start, end) ==
    LET tags == Splice(this.tags, start, end - start, <<>>)
    IN  SubSequence_removeRange([this EXCEPT !.tags = tags], start, end)

RunSegment_getTag(this, pos) ==
    IF pos + 1 \in DOMAIN this.tags THEN this.tags[pos + 1] ELSE Undefined

\* this.tags[pos] = tag: an index past the end extends the array
RunSegment_setTag(this, pos, tag) ==
    LET t == IF pos + 1 > Len(this.tags) THEN SetLength(this.tags, pos + 1)
             ELSE this.tags
    IN  [this EXCEPT !.tags = [t EXCEPT ![pos + 1] = tag]]

\* mutant: the retained segment's tag array is not truncated
RunSegment_createSplitSegmentAt_keepTags(this, pos) ==
    IF pos > 0
    THEN LET remainingItems == Slice(this.items, pos, Len(this.items))
             items == Slice(this.items, 0, pos)
             leafSegment == [RunSegment(remainingItems, this.seq, this.clientId)
                               EXCEPT !.tags = Slice(this.tags, pos, Len(this.tags))]
         IN  [this |-> [this EXCEPT !.items = items, !.cachedLength = Len(items)],
              ret |-> leafSegment]
    ELSE [this |-> this, ret |-> NoSegment]

\* mutant: the sibling keeps the fresh tag array of its constructor
RunSegment_createSplitSegmentAt_freshTags(this, pos) ==
    IF pos > 0
    THEN LET remainingItems == Slice(this.items, pos, Len(this.items))
             items == Slice(this.items, 0, pos)
             leafSegment == RunSegment(remainingItems, this.seq, this.clientId)
         IN  [this |-> [this EXCEPT !.items = items, !.cachedLength = Len(items),
                                    !.tags = SetLength(this.tags, pos)],
              ret |-> leafSegment]
    ELSE [this |-> this, ret |-> NoSegment]

\* [this, ret]: ret is NoSegment when the code returns nothing (pos = 0)
RunSegment_createSplitSegmentAt(this, pos) ==
    IF pos > 0
    THEN LET remainingItems == Slice(this.items, pos, Len(this.items))
             items == Slice(this.items, 0, pos)
             leafSegment == [RunSegment(remainingItems, this.seq, this.clientId)
                               EXCEPT !.tags = Slice(this.tags, pos, Len(this.tags))]
         IN  [this |-> [this EXCEPT !.items = items, !.cachedLength = Len(items),
                                    !.tags = SetLength(this.tags, pos)],
              ret |-> leafSegment]
    ELSE [this |-> this, ret |-> NoSegment]

\* dispatch on the variant, as the engine's virtual calls do
Segment_canAppend(this, segment) ==
    IF RunSegment_is(this) THEN SubSequence_canAppend(this, segment)
    ELSE PaddingSegment_canAppend(this, segment)

Segment_append(this, segment) ==
    IF RunSegment_is(this) THEN RunSegment_append(this, segment)
    ELSE PaddingSegment_append(this, segment)

Segment_removeRange(this, start, end) ==
    IF RunSegment_is(this) THEN RunSegment_removeRange(this, start, end)
    ELSE PaddingSegment_removeRange(this, start, end)

Segment_createSplitSegmentAt(this, pos) ==
    IF RunSegment_is(this) THEN RunSegment_createSplitSegmentAt(this, pos)
    ELSE PaddingSegment_createSplitSegmentAt(this, pos)

Segment_clone(this, start, end) ==
    IF RunSegment_is(this) THEN RunSegment_clone(this, start, end)
    ELSE PaddingSegment_clone(this, start, end)

----------------------------------------------------------------------------
(* Position addressing.  The constants are scaled down and keep the        *)
(* relations of the source: maxCol = 0x200000 = 2^21 and maxRow =          *)
(* 0xFFFFFFFF = 2^32 - 1 there, 2^2 and 2^3 - 1 here.                      *)

maxCol == 4
maxCols == maxCol + 1

maxRow == 7
maxRows == maxRow + 1

maxCellPosition == maxCol * maxRow

\* The language's number is an IEEE-754 double: integers are exact up to
\* 2^53, and 2^53 is maxCol * maxRows (2^21 * 2^32) of the source.  The same
\* product of the scaled constants is the limit here.
ExactLimit == maxCol * maxRows

Abs(x) == IF x < 0 THEN 0 - x ELSE x

\* the spacing of the representable numbers around the magnitude x
RECURSIVE SpacingFrom(_, _)
SpacingFrom(x, u) == IF x <= ExactLimit * u THEN u ELSE SpacingFrom(x, 2 * u)
Spacing(x) == SpacingFrom(Abs(x), 1)

\* the result of an arithmetic operation whose exact value is the integer x:
\* the nearest representable number, ties to the even significand
ToNumber(x) ==
    LET m == Abs(x)
        u == Spacing(m)
        lo == (m \div u) * u
        hi == lo + u
        r == IF m = lo THEN lo
             ELSE IF m - lo < hi - m THEN lo
             ELSE IF m - lo > hi - m THEN hi
             ELSE IF (lo \div u) % 2 = 0 THEN lo ELSE hi
    IN  IF x < 0 THEN 0 - r ELSE r

RECURSIVE Pow2Floor(_)
Pow2Floor(q) == IF q < 2 THEN 1 ELSE 2 * Pow2Floor(q \div 2)

\* Math.floor(p / m) for a representable p >= 0: the quotient is rounded to a
\* representable number before the floor, so a quotient within half a
\* spacing below q + 1 floors to q + 1
FloorOfQuotient(p, m) ==
    LET q == p \div m
        r == p % m
    IN  IF r # 0 /\ q >= 1 /\ (m - r) * ExactLimit <= m * Pow2Floor(q)
        THEN q + 1
        ELSE q

rowColToPosition(row, col) == ToNumber(ToNumber(row * maxCols) + col)

positionToRowCol(position) ==
    LET row == FloorOfQuotient(position, maxCols)
        col == ToNumber(position - ToNumber(row * maxCols))
    IN  [row |-> row, col |-> col]

----------------------------------------------------------------------------
(* Serialized records.  A value handed to fromJSONObject is null, a string *)
(* or an object; the fields of an object are a record over its keys.       *)

JsonNull == [kind |-> "null", fields |-> <<>>]
JsonString == [kind |-> "string", fields |-> <<>>]
JsonObject(fields) == [kind |-> "object", fields |-> fields]

\* 'spec && typeof spec === "object"'
IsObject(spec) == spec.kind = "object"
\* 'key in spec'
In(key, spec) == key \in DOMAIN spec.fields
\* 'spec.key': undefined for a key the object does not have
Get(spec, key) == IF In(key, spec) THEN spec.fields[key] ELSE Undefined

\* JSON.parse(JSON.stringify(spec)): a key that holds undefined is dropped
\* (of the keys written here only props can)
Stringify(spec) ==
    IF IsObject(spec)
    THEN JsonObject([k \in {k \in DOMAIN spec.fields :
                                ~(k = "props" /\ spec.fields[k] = Undefined)}
                        |-> spec.fields[k]])
    ELSE spec

----------------------------------------------------------------------------
(* Idle values of the variables a specification does not use.              *)

NoSegOp == [op |-> "none", a |-> 0, b |-> 0, ret |-> FALSE, error |-> Undefined]
NoPos == [row |-> 0, col |-> 0]
NoOp == [op |-> "none", row |-> 0, col |-> 0, count |-> 0, values |-> <<>>,
         props |-> Undefined, tag |-> Undefined, error |-> Undefined,
         submitted |-> 0]

SegIdle == seg = NoSegment /\ other = NoSegment /\ prevSeg = NoSegment /\ segOp = NoSegOp
PosIdle == posIn = [kind |-> "none", row |-> 0, col |-> 0, position |-> 0]
           /\ posOut = [done |-> FALSE, position |-> 0, rowCol |-> NoPos]
MatIdle == chain = <<>> /\ prevChain = <<>> /\ last = NoOp /\ steps = 0
NoLoad == [op |-> "none", error |-> Undefined, segment |-> NoSegment]
JsonIdle == source = NoSegment /\ json = JsonNull /\ loaded = NoLoad
\* the arrays of a run segment and of its clone are objects of a heap: a
\* segment holds a reference (an index of the heap) to its items array and
\* one to its tags array; alone is what each segment would hold had the
\* other never existed
NoRefs == [items |-> 0, tags |-> 0]
NoClone == [heap |-> <<>>,
            refs |-> [source |-> NoRefs, copy |-> NoRefs],
            alone |-> [source |-> NoSegment, copy |-> NoSegment],
            side |-> "none", n |-> 0]
CloneIdle == cloned = NoClone
\* a plain object '{}' by its own properties: the function from its own keys
EmptyObject == [k \in {} |-> 0]
NoMessage == [op |-> "none", event |-> "none", documentId |-> "none",
              message |-> "none", connection |-> 0]
NoDoc == [eventMap |-> EmptyObject, toStringProps |-> EmptyObject,
          listeners |-> EmptyObject, registered |-> EmptyObject,
          delivered |-> <<>>, last |-> NoMessage, n |-> 0]
DocIdle == doc = NoDoc
MoveIdle == [pc |-> "idle", op |-> "none", col |-> 0, srcCol |-> 0, destCol |-> 0,
             numCols |-> 0, r |-> 0, rowStart |-> 0, i |-> 1, chain0 |-> <<>>,
             log |-> <<>>, edit |-> NoOp, error |-> Undefined]

----------------------------------------------------------------------------
(* SpecSeg: one segment, mutated as the sequence engine mutates segments.  *)
(* seg is the receiver, other the argument of the last append or the       *)
(* segment the last split/clone returned, prevSeg the receiver before the  *)
(* last operation.                                                         *)

SeqsUpTo(S, lo, hi) == UNION {[1..n -> S] : n \in lo..hi}

Provenances == {<<UniversalSequenceNumber, LocalClientId>>, <<1, 1>>}

\* segment.addProperties(props), called only 'if (props)'
addProperties(segment, props) ==
    IF props # Undefined THEN [segment EXCEPT !.properties = props] ELSE segment

\* the local references the engine anchored on a segment of length n: none,
\* one at the first offset, one at the last, or both
LocalRefSets(n) == {{}, {0}, {n - 1}, {0, n - 1}}

\* the segments handed to append: freshly built runs whose tags were set
\* through setTag, and paddings with local references
AppendArgs ==
    {[RunSegment(items, UniversalSequenceNumber, LocalClientId) EXCEPT !.tags = tags] :
        <<items, tags>> \in UNION {[1..n -> Values] \X [1..n -> Tags] : n \in 1..MaxItems}}
    \cup {[PaddingSegment(n, UniversalSequenceNumber, LocalClientId)
               EXCEPT !.localRefs = refs] :
            <<n, refs>> \in UNION {{n} \X LocalRefSets(n) : n \in 1..MaxPad}}

SegInit == /\ seg = NoSegment /\ other = NoSegment /\ prevSeg = NoSegment
           /\ segOp = NoSegOp
           /\ PosIdle /\ MatIdle /\ JsonIdle /\ move = MoveIdle /\ CloneIdle /\ DocIdle

SegNewRun ==
    \E items \in SeqsUpTo(Values, 0, MaxItems), pv \in Provenances, props \in PropertySets :
        /\ seg' = addProperties(RunSegment(items, pv[1], pv[2]), props)
        /\ other' = NoSegment
        /\ prevSeg' = NoSegment
        /\ segOp' = [NoSegOp EXCEPT !.op = "new"]
        /\ UNCHANGED <<posVars, matVars, jsonVars, moveVars, cloneVars, docVars>>

SegNewPadding ==
    \E size \in 1..MaxPad, pv \in Provenances, props \in PropertySets :
        /\ seg' = addProperties(PaddingSegment(size, pv[1], pv[2]), props)
        /\ other' = NoSegment
        /\ prevSeg' = NoSegment
        /\ segOp' = [NoSegOp EXCEPT !.op = "new"]
        /\ UNCHANGED <<posVars, matVars, jsonVars, moveVars, cloneVars, docVars>>

SegAppend ==
    \E b \in AppendArgs :
        /\ seg # NoSegment
        /\ Segment_canAppend(seg, b)
        /\ seg.cachedLength + b.cachedLength <= (IF RunSegment_is(seg) THEN MaxRunLen ELSE MaxPad)
        /\ seg' = Segment_append(seg, b)
        /\ other' = b
        /\ prevSeg' = seg
        /\ segOp' = [NoSegOp EXCEPT !.op = "append"]
        /\ UNCHANGED <<posVars, matVars, jsonVars, moveVars, cloneVars, docVars>>

\* PaddingSegment.append handed a segment that is not padding: the throw
\* leaves the receiver as it was
SegAppendInvalid ==
    \E b \in AppendArgs :
        /\ PaddingSegment_is(seg)
        /\ PaddingSegment_append_throws(seg, b)
        /\ seg' = seg
        /\ other' = b
        /\ prevSeg' = seg
        /\ segOp' = [NoSegOp EXCEPT !.op = "append", !.error = InvalidAppend]
        /\ UNCHANGED <<posVars, matVars, jsonVars, moveVars, cloneVars, docVars>>

SegRemoveRange ==
    \E start \in 0..seg.cachedLength, end \in 0..seg.cachedLength :
        /\ seg # NoSegment
        /\ start < end
        /\ LET r == Segment_removeRange(seg, start, end)
           IN  /\ seg' = r.this
               /\ segOp' = [NoSegOp EXCEPT !.op = "removeRange", !.a = start,
                                            !.b = end, !.ret = r.ret]
        /\ other' = NoSegment
        /\ prevSeg' = seg
        /\ UNCHANGED <<posVars, matVars, jsonVars, moveVars, cloneVars, docVars>>

\* BaseSegment.splitAt calls createSplitSegmentAt for 0 < pos only; a run
\* segment guards pos > 0 itself
SegSplit ==
    \E pos \in 0..seg.cachedLength :
        /\ seg # NoSegment
        /\ RunSegment_is(seg) \/ 0 < pos
        /\ LET r == Segment_createSplitSegmentAt(seg, pos)
           IN  /\ seg' = r.this
               /\ other' = r.ret
        /\ segOp' = [NoSegOp EXCEPT !.op = "split", !.a = pos]
        /\ prevSeg' = seg
        /\ UNCHANGED <<posVars, matVars, jsonVars, moveVars, cloneVars, docVars>>

SegClone ==
    \E start \in 0..seg.cachedLength, end \in 0..seg.cachedLength :
        /\ seg # NoSegment
        /\ start <= end
        /\ other' = Segment_clone(seg, start, end)
        /\ segOp' = [NoSegOp EXCEPT !.op = "clone", !.a = start, !.b = end]
        /\ prevSeg' = seg
        /\ UNCHANGED <<seg, posVars, matVars, jsonVars, moveVars, cloneVars, docVars>>

SegSetTag ==
    \E pos \in 0..(seg.cachedLength - 1), tag \in Tags :
        /\ RunSegment_is(seg)
        /\ seg' = RunSegment_setTag(seg, pos, tag)
        /\ segOp' = [NoSegOp EXCEPT !.op = "setTag", !.a = pos]
        /\ other' = NoSegment
        /\ prevSeg' = seg
        /\ UNCHANGED <<posVars, matVars, jsonVars, moveVars, cloneVars, docVars>>

SegNext == \/ SegNewRun \/ SegNewPadding \/ SegAppend \/ SegAppendInvalid
           \/ SegRemoveRange
           \/ SegSplit \/ SegClone \/ SegSetTag

SpecSeg == SegInit /\ [][SegNext]_vars

----------------------------------------------------------------------------
(* The sequence engine, as far as the facade uses it: the live chain is a  *)
(* sequence of segments; a position is located by walking it; an insert    *)
(* splits the segment that contains the position; a removal hands each     *)
(* covered segment its part of the range and detaches the segments that    *)
(* report themselves empty.  Positions past the end of the chain hold no   *)
(* segment.  An attached segment has a length > 0: a segment without       *)
(* length is not inserted, and the insert then yields no descriptor.       *)

RECURSIVE getLengthFrom(_, _)
getLengthFrom(c, i) ==
    IF i > Len(c) THEN 0 ELSE c[i].cachedLength + getLengthFrom(c, i + 1)
getLength(c) == getLengthFrom(c, 1)

\* [index, offset]: index 0 when no segment contains pos
RECURSIVE getContainingSegmentFrom(_, _, _)
getContainingSegmentFrom(c, i, pos) ==
    IF i > Len(c) THEN [index |-> 0, offset |-> 0]
    ELSE IF pos < c[i].cachedLength THEN [index |-> i, offset |-> pos]
    ELSE getContainingSegmentFrom(c, i + 1, pos - c[i].cachedLength)
getContainingSegment(c, pos) ==
    IF pos < 0 THEN [index |-> 0, offset |-> 0]
    ELSE getContainingSegmentFrom(c, 1, pos)

\* a segment boundary at pos: the containing segment is split when pos falls
\* inside it
ensureBoundary(c, pos) ==
    LET loc == getContainingSegment(c, pos)
    IN  IF loc.index = 0 \/ loc.offset = 0 THEN c
        ELSE LET r == Segment_createSplitSegmentAt(c[loc.index], loc.offset)
             IN  SubSeq(c, 1, loc.index - 1) \o <<r.this, r.ret>>
                 \o SubSeq(c, loc.index + 1, Len(c))

\* the number of segments that end at or before pos
RECURSIVE segmentsBefore(_, _, _)
segmentsBefore(c, i, pos) ==
    IF i > Len(c) \/ pos < c[i].cachedLength
    THEN 0
    ELSE 1 + segmentsBefore(c, i + 1, pos - c[i].cachedLength)

\* the descriptor client.insertSegmentLocal returns: TRUE when there is one
insertSegmentLocal_op(c, pos, segment) == segment.cachedLength > 0

\* client.insertSegmentLocal(pos, segment), for pos within [0, length]
insertSegmentLocal(c, pos, segment) ==
    LET c1 == ensureBoundary(c, pos)
        k == segmentsBefore(c1, 1, pos)
    IN  IF insertSegmentLocal_op(c, pos, segment)
        THEN SubSeq(c1, 1, k) \o <<segment>> \o SubSeq(c1, k + 1, Len(c1))
        ELSE c

\* removeRange(start, end): the part of [start, end) the chain holds
RECURSIVE removeRangeFrom(_, _, _, _)
removeRangeFrom(c, i, start, end) ==
    IF i > Len(c) \/ end <= 0 THEN SubSeq(c, i, Len(c))
    ELSE LET len == c[i].cachedLength
             s == Max(start, 0)
             e == Min(end, len)
         IN  IF s >= e
             THEN <<c[i]>> \o removeRangeFrom(c, i + 1, start - len, end - len)
             ELSE LET r == Segment_removeRange(c[i], s, e)
                  IN  (IF r.ret THEN <<>> ELSE <<r.this>>)
                      \o removeRangeFrom(c, i + 1, start - len, end - len)
removeRange(c, start, end) == removeRangeFrom(c, 1, start, end)

\* replaceRange(start, end, segment)
replaceRange(c, start, end, segment) ==
    insertSegmentLocal(removeRange(c, start, end), start, segment)

\* the structural changes the engine's range primitives submit: one for a
\* replaceRange that inserted its segment, one for a removeRange
replaceRange_submitted(c, start, end, segment) ==
    IF insertSegmentLocal_op(removeRange(c, start, end), start, segment) THEN 1 ELSE 0
removeRange_submitted(c, start, end) == 1

----------------------------------------------------------------------------
(* The SparseMatrix facade.                                                *)

numRows(c) == positionToRowCol(getLength(c)).row

\* the thrown errors
TypeError == "TypeError"
UnrecognizedSegment == "UnrecognizedSegment"
InvalidTagTarget == "InvalidTagTarget"

\* the covering segment, NoSegment where the engine finds none
segmentAt(c, pos) ==
    LET loc == getContainingSegment(c, pos)
    IN  IF loc.index = 0 THEN NoSegment ELSE c[loc.index]

\* mutant: the properties are not attached to the new segment
setItems_noProps(c, row, col, values, props) ==
    LET start == rowColToPosition(row, col)
        end == start + Len(values)
        segment == RunSegment(values, UniversalSequenceNumber, LocalClientId)
    IN  replaceRange(c, start, end, segment)

setItems(c, row, col, values, props) ==
    LET start == rowColToPosition(row, col)
        end == start + Len(values)
        segment == addProperties(RunSegment(values, UniversalSequenceNumber, LocalClientId),
                                 props)
    IN  replaceRange(c, start, end, segment)

\* the structural changes setItems submits: those of its one replaceRange
setItems_submitted(c, row, col, values, props) ==
    LET start == rowColToPosition(row, col)
        end == start + Len(values)
        segment == addProperties(RunSegment(values, UniversalSequenceNumber, LocalClientId),
                                 props)
    IN  replaceRange_submitted(c, start, end, segment)

\* [error, value]: RunSegment.is(segment) reads segment.type, which throws a
\* TypeError when the engine found no segment
getItem(c, row, col) ==
    LET pos == rowColToPosition(row, col)
        loc == getContainingSegment(c, pos)
        segment == segmentAt(c, pos)
    IN  IF segment = NoSegment THEN [error |-> TypeError, value |-> Undefined]
        ELSE IF RunSegment_is(segment)
        THEN [error |-> Undefined, value |-> segment.items[loc.offset + 1]]
        ELSE IF PaddingSegment_is(segment)
        THEN [error |-> Undefined, value |-> Undefined]
        ELSE [error |-> UnrecognizedSegment, value |-> Undefined]

getTag(c, row, col) ==
    LET pos == rowColToPosition(row, col)
        loc == getContainingSegment(c, pos)
        segment == segmentAt(c, pos)
    IN  IF segment = NoSegment THEN [error |-> TypeError, value |-> Undefined]
        ELSE IF RunSegment_is(segment)
        THEN [error |-> Undefined, value |-> RunSegment_getTag(segment, loc.offset)]
        ELSE [error |-> Undefined, value |-> Undefined]

\* [error, chain]
setTag(c, row, col, tag) ==
    LET pos == rowColToPosition(row, col)
        loc == getContainingSegment(c, pos)
        segment == segmentAt(c, pos)
    IN  IF segment = NoSegment THEN [error |-> TypeError, chain |-> c]
        ELSE IF RunSegment_is(segment)
        THEN [error |-> Undefined,
              chain |-> [c EXCEPT ![loc.index] = RunSegment_setTag(segment, loc.offset, tag)]]
        ELSE IF tag # Undefined
        THEN [error |-> InvalidTagTarget, chain |-> c]
        ELSE [error |-> Undefined, chain |-> c]

\* mutant: the padding is sized by maxCol, one short of a row per row
insertRows_maxCol(c, row, n) ==
    LET pos == rowColToPosition(row, 0)
        size == maxCol * n
        segment == PaddingSegment(size, UniversalSequenceNumber, LocalClientId)
    IN  insertSegmentLocal(c, pos, segment)

insertRows(c, row, n) ==
    LET pos == rowColToPosition(row, 0)
        size == maxCols * n
        segment == PaddingSegment(size, UniversalSequenceNumber, LocalClientId)
    IN  insertSegmentLocal(c, pos, segment)

\* 'if (insertOp) this.submitSequenceMessage(insertOp)'
insertRows_submitted(c, row, n) ==
    LET pos == rowColToPosition(row, 0)
        size == maxCols * n
        segment == PaddingSegment(size, UniversalSequenceNumber, LocalClientId)
    IN  IF insertSegmentLocal_op(c, pos, segment) THEN 1 ELSE 0

\* mutant: the removed range ends one position early
removeRows_shortEnd(c, row, n) ==
    LET pos == rowColToPosition(row, 0)
        size == maxCols * n
    IN  removeRange(c, pos, pos + size - 1)

removeRows(c, row, n) ==
    LET pos == rowColToPosition(row, 0)
        size == maxCols * n
    IN  removeRange(c, pos, pos + size)

removeRows_submitted(c, row, n) ==
    LET pos == rowColToPosition(row, 0)
        size == maxCols * n
    IN  removeRange_submitted(c, pos, pos + size)

\* mutant: the removed slice includes its end column
RECURSIVE moveAsPaddingFrom_inclusiveEnd(_, _, _, _, _, _)
moveAsPaddingFrom_inclusiveEnd(c, r, rowStart, srcCol, destCol, numCols) ==
    IF r < numRows(c)
    THEN LET removeColStart == srcCol
             removeColEnd == srcCol + numCols + 1
             c1 == removeRange(c, rowStart + removeColStart, rowStart + removeColEnd)
             insertPos == rowStart + destCol
             segment == PaddingSegment(numCols, UniversalSequenceNumber, LocalClientId)
             c2 == insertSegmentLocal(c1, insertPos, segment)
         IN  moveAsPaddingFrom_inclusiveEnd(c2, r + 1, rowStart + maxCols,
                                            srcCol, destCol, numCols)
    ELSE c

\* the loop of moveAsPadding from row r on; numRows is read again at every
\* iteration
RECURSIVE moveAsPaddingFrom(_, _, _, _, _, _)
moveAsPaddingFrom(c, r, rowStart, srcCol, destCol, numCols) ==
    IF r < numRows(c)
    THEN LET removeColStart == srcCol
             removeColEnd == srcCol + numCols
             c1 == removeRange(c, rowStart + removeColStart, rowStart + removeColEnd)
             insertPos == rowStart + destCol
             segment == PaddingSegment(numCols, UniversalSequenceNumber, LocalClientId)
             c2 == insertSegmentLocal(c1, insertPos, segment)
         IN  moveAsPaddingFrom(c2, r + 1, rowStart + maxCols, srcCol, destCol, numCols)
    ELSE c

moveAsPadding(c, srcCol, destCol, numCols) ==
    moveAsPaddingFrom(c, 0, 0, srcCol, destCol, numCols)

\* the structural changes the loop submits from row r on: per row the
\* removeRange and, 'if (insertOp)', the insert
RECURSIVE moveAsPaddingFrom_submitted(_, _, _, _, _, _)
moveAsPaddingFrom_submitted(c, r, rowStart, srcCol, destCol, numCols) ==
    IF r < numRows(c)
    THEN LET c1 == removeRange(c, rowStart + srcCol, rowStart + srcCol + numCols)
             segment == PaddingSegment(numCols, UniversalSequenceNumber, LocalClientId)
             c2 == insertSegmentLocal(c1, rowStart + destCol, segment)
         IN  removeRange_submitted(c, rowStart + srcCol, rowStart + srcCol + numCols)
             + (IF insertSegmentLocal_op(c1, rowStart + destCol, segment) THEN 1 ELSE 0)
             + moveAsPaddingFrom_submitted(c2, r + 1, rowStart + maxCols,
                                           srcCol, destCol, numCols)
    ELSE 0

moveAsPadding_submitted(c, srcCol, destCol, numCols) ==
    moveAsPaddingFrom_submitted(c, 0, 0, srcCol, destCol, numCols)

\* mutant: source and destination columns are swapped
insertCols_swapped(c, col, n) == moveAsPadding(c, col, maxCol - n, n)

insertCols(c, col, n) == moveAsPadding(c, maxCol - n, col, n)

removeCols(c, col, n) == moveAsPadding(c, col, maxCol - n, n)

----------------------------------------------------------------------------
(* Spec: the facade operations on one matrix, from the empty matrix on.    *)
(* prevChain is the chain before the last operation and last the call.     *)
(* The engine is handed positions within [0, length] only.  last.submitted *)
(* counts the structural changes the call submitted.                       *)

Init == /\ chain = <<>> /\ prevChain = <<>> /\ last = NoOp /\ steps = 0
        /\ SegIdle /\ PosIdle /\ JsonIdle /\ move = MoveIdle /\ CloneIdle /\ DocIdle

Done(c, call) ==
    /\ steps < MaxOps
    /\ numRows(c) <= MaxRows
    /\ chain' = c
    /\ prevChain' = chain
    /\ last' = call
    /\ steps' = steps + 1
    /\ UNCHANGED <<segVars, posVars, jsonVars, moveVars, cloneVars, docVars>>

SetItems ==
    \E row \in 0..MaxRows, col \in 0..maxCol, values \in SeqsUpTo(Values, 0, MaxItems),
       props \in PropertySets :
        /\ rowColToPosition(row, col) <= getLength(chain)
        /\ Done(setItems(chain, row, col, values, props),
                [NoOp EXCEPT !.op = "setItems", !.row = row, !.col = col,
                             !.values = values, !.props = props,
                             !.submitted = setItems_submitted(chain, row, col, values, props)])

SetTag ==
    \E row \in 0..MaxRows, col \in 0..maxCol, tag \in Tags :
        /\ steps < MaxOps
        /\ Done(setTag(chain, row, col, tag).chain,
                [NoOp EXCEPT !.op = "setTag", !.row = row, !.col = col,
                             !.tag = tag,
                             !.error = setTag(chain, row, col, tag).error])

InsertRows ==
    \E row \in 0..MaxRows, n \in 0..MaxCount :
        /\ rowColToPosition(row, 0) <= getLength(chain)
        /\ Done(insertRows(chain, row, n),
                [NoOp EXCEPT !.op = "insertRows", !.row = row, !.count = n,
                             !.submitted = insertRows_submitted(chain, row, n)])

RemoveRows ==
    \E row \in 0..MaxRows, n \in 0..MaxCount :
        /\ rowColToPosition(row, 0) <= getLength(chain)
        /\ Done(removeRows(chain, row, n),
                [NoOp EXCEPT !.op = "removeRows", !.row = row, !.count = n,
                             !.submitted = removeRows_submitted(chain, row, n)])

InsertCols ==
    \E col \in 0..maxCol, n \in 0..MaxCount :
        /\ col + n <= maxCols
        /\ Done(insertCols(chain, col, n),
                [NoOp EXCEPT !.op = "insertCols", !.col = col, !.count = n,
                             !.submitted = moveAsPadding_submitted(chain, maxCol - n, col, n)])

RemoveCols ==
    \E col \in 0..maxCol, n \in 0..MaxCount :
        /\ col + n <= maxCols
        /\ Done(removeCols(chain, col, n),
                [NoOp EXCEPT !.op = "removeCols", !.col = col, !.count = n,
                             !.submitted = moveAsPadding_submitted(chain, col, maxCol - n, n)])

Next == \/ SetItems \/ SetTag \/ InsertRows \/ RemoveRows
        \/ InsertCols \/ RemoveCols

Spec == Init /\ [][Next]_vars

----------------------------------------------------------------------------
(* Serialization of the segments, and SpecJson: a segment is serialized,   *)
(* or a record arrives from persisted state; the record may pass through   *)
(* JSON text; it is then read back.                                        *)

\* mutant: the properties are not written
PaddingSegment_toJSONObject_noProps(this) ==
    JsonObject([pad |-> this.cachedLength])

PaddingSegment_toJSONObject(this) ==
    JsonObject([pad |-> this.cachedLength, props |-> this.properties])

\* the returned segment, NoSegment for the code's 'return undefined'
PaddingSegment_fromJSONObject(spec) ==
    IF IsObject(spec) /\ In("pad", spec)
    THEN LET segment == PaddingSegment(Get(spec, "pad"), UniversalSequenceNumber,
                                       LocalClientId)
         IN  addProperties(segment, Get(spec, "props"))
    ELSE NoSegment

\* SubSequence.toJSONObject: the items and the properties, under the keys
\* RunSegment.fromJSONObject reads; the base class knows no tags
SubSequence_toJSONObject(this) ==
    JsonObject([items |-> this.items, props |-> this.properties])

RunSegment_fromJSONObject(spec) ==
    IF IsObject(spec) /\ In("items", spec)
    THEN LET segment == RunSegment(Get(spec, "items"), UniversalSequenceNumber,
                                   LocalClientId)
         IN  addProperties(segment, Get(spec, "props"))
    ELSE NoSegment

Segment_toJSONObject(this) ==
    IF RunSegment_is(this) THEN SubSequence_toJSONObject(this)
    ELSE PaddingSegment_toJSONObject(this)

\* mutant: the run variant is tried first
segmentFromSpec_runFirst(spec) ==
    LET maybeRun == RunSegment_fromJSONObject(spec)
        maybePadding == PaddingSegment_fromJSONObject(spec)
    IN  IF maybeRun # NoSegment
        THEN [error |-> Undefined, segment |-> maybeRun]
        ELSE IF maybePadding # NoSegment
        THEN [error |-> Undefined, segment |-> maybePadding]
        ELSE [error |-> UnrecognizedSegment, segment |-> NoSegment]

\* [error, segment]
segmentFromSpec(spec) ==
    LET maybePadding == PaddingSegment_fromJSONObject(spec)
        maybeRun == RunSegment_fromJSONObject(spec)
    IN  IF maybePadding # NoSegment
        THEN [error |-> Undefined, segment |-> maybePadding]
        ELSE IF maybeRun # NoSegment
        THEN [error |-> Undefined, segment |-> maybeRun]
        ELSE [error |-> UnrecognizedSegment, segment |-> NoSegment]

\* the segments that get serialized: runs with values, tags and properties,
\* an empty run, paddings; with either provenance
JsonSources ==
    {[addProperties(s, props) EXCEPT !.seq = pv[1], !.clientId = pv[2]] :
        s \in AppendArgs \cup {RunSegment(<<>>, UniversalSequenceNumber, LocalClientId)},
        props \in PropertySets, pv \in Provenances}

\* the records that arrive from elsewhere: no object, the padding shape,
\* the run shape, both shapes at once, neither
JsonSpecs ==
    {JsonNull, JsonString, JsonObject(<<>>)}
    \cup {JsonObject([props |-> props]) : props \in PropertySets}
    \cup {JsonObject([pad |-> n]) : n \in 1..MaxPad}
    \cup {JsonObject([pad |-> n, props |-> props]) : n \in 1..MaxPad, props \in PropertySets}
    \cup {JsonObject([items |-> items]) : items \in SeqsUpTo(Values, 0, MaxItems)}
    \cup {JsonObject([items |-> items, props |-> props]) :
            items \in SeqsUpTo(Values, 0, MaxItems), props \in PropertySets}
    \cup {JsonObject([pad |-> n, items |-> items]) :
            n \in 1..MaxPad, items \in SeqsUpTo(Values, 0, MaxItems)}

JsonInit == /\ source = NoSegment /\ json = JsonNull /\ loaded = NoLoad
            /\ SegIdle /\ PosIdle /\ MatIdle /\ move = MoveIdle /\ CloneIdle /\ DocIdle

JsonToJSONObject ==
    \E s \in JsonSources :
        /\ source' = s
        /\ json' = Segment_toJSONObject(s)
        /\ loaded' = NoLoad
        /\ UNCHANGED <<segVars, posVars, matVars, moveVars, cloneVars, docVars>>

JsonReceive ==
    \E spec \in JsonSpecs :
        /\ source' = NoSegment
        /\ json' = spec
        /\ loaded' = NoLoad
        /\ UNCHANGED <<segVars, posVars, matVars, moveVars, cloneVars, docVars>>

JsonWire ==
    /\ loaded = NoLoad
    /\ json' = Stringify(json)
    /\ json' # json
    /\ UNCHANGED <<source, loaded, segVars, posVars, matVars, moveVars, cloneVars, docVars>>

JsonSegmentFromSpec ==
    /\ loaded = NoLoad
    /\ LET r == segmentFromSpec(json)
       IN  loaded' = [op |-> "segmentFromSpec", error |-> r.error, segment |-> r.segment]
    /\ UNCHANGED <<source, json, segVars, posVars, matVars, moveVars, cloneVars, docVars>>

JsonPaddingFromJSONObject ==
    /\ loaded = NoLoad
    /\ loaded' = [op |-> "PaddingSegment.fromJSONObject", error |-> Undefined,
                  segment |-> PaddingSegment_fromJSONObject(json)]
    /\ UNCHANGED <<source, json, segVars, posVars, matVars, moveVars, cloneVars, docVars>>

JsonNext == \/ JsonToJSONObject \/ JsonReceive \/ JsonWire
            \/ JsonSegmentFromSpec \/ JsonPaddingFromJSONObject

SpecJson == JsonInit /\ [][JsonNext]_vars

----------------------------------------------------------------------------
(* SpecMove: one insertCols/removeCols call on a matrix the facade built,  *)
(* executed as moveAsPadding executes it: per row a removeRange and then   *)
(* an insertSegmentLocal, each submitted on its own.  move.log holds the   *)
(* submitted changes, move.chain0 the chain at the call.  Between the two  *)
(* sub-steps of a row an edit of another origin may be applied; no         *)
(* try/catch surrounds the loop, so a sub-step that throws ends the call   *)
(* with the chain as it is.                                                *)

EngineError == "EngineError"

\* mutant: a row's padding is inserted before its slice is removed
moveRowSteps_insertFirst(rowStart, srcCol, destCol, numCols) ==
    << [op |-> "insert", a |-> rowStart + destCol, b |-> numCols],
       [op |-> "remove", a |-> rowStart + srcCol, b |-> rowStart + srcCol + numCols] >>

\* mutant: a row's padding is inserted at the source column
moveRowSteps_insertAtSrc(rowStart, srcCol, destCol, numCols) ==
    << [op |-> "remove", a |-> rowStart + srcCol, b |-> rowStart + srcCol + numCols],
       [op |-> "insert", a |-> rowStart + srcCol, b |-> numCols] >>

\* the body of the loop for the row at rowStart: removeRange(a, b), then
\* insertSegmentLocal(a, new PaddingSegment(b))
moveRowSteps(rowStart, srcCol, destCol, numCols) ==
    << [op |-> "remove", a |-> rowStart + srcCol, b |-> rowStart + srcCol + numCols],
       [op |-> "insert", a |-> rowStart + destCol, b |-> numCols] >>

ApplyStep(c, step) ==
    IF step.op = "remove" THEN removeRange(c, step.a, step.b)
    ELSE insertSegmentLocal(c, step.a,
                            PaddingSegment(step.b, UniversalSequenceNumber, LocalClientId))

\* the sub-step's entry in the log of submitted changes
StepSubmitted(c, step) ==
    IF step.op = "remove"
    THEN (IF removeRange_submitted(c, step.a, step.b) = 1 THEN <<step>> ELSE <<>>)
    ELSE (IF insertSegmentLocal_op(c, step.a,
                 PaddingSegment(step.b, UniversalSequenceNumber, LocalClientId))
          THEN <<step>> ELSE <<>>)

\* the matrices a call finds: whole rows, bare or with one written range
MoveMatrices ==
    {insertRows(<<>>, 0, rows) : rows \in 0..MaxRows}
    \cup {setItems(insertRows(<<>>, 0, rows), row, col, values, Undefined) :
            <<rows, row, col, values>> \in
                {t \in (1..MaxRows) \X (0..(MaxRows - 1)) \X (0..maxCol)
                        \X {<<"a">>, <<"a", "b">>} :
                    /\ t[2] < t[1]
                    /\ rowColToPosition(t[2], t[3]) + Len(t[4]) <= t[1] * maxCols}}

MoveInit == /\ chain \in MoveMatrices
            /\ prevChain = <<>> /\ last = NoOp /\ steps = 0
            /\ move = MoveIdle
            /\ SegIdle /\ PosIdle /\ JsonIdle /\ CloneIdle /\ DocIdle

\* insertCols(col, numCols) / removeCols(col, numCols): the loop is entered
\* when the matrix has a row
MoveBegin ==
    \E op \in {"insertCols", "removeCols"}, col \in 0..maxCol, n \in 0..MaxCount :
        /\ move.pc = "idle"
        /\ col + n <= maxCols
        /\ move' = [MoveIdle EXCEPT
                      !.pc = IF 0 < numRows(chain) THEN "running" ELSE "done",
                      !.op = op, !.col = col, !.numCols = n,
                      !.srcCol = IF op = "insertCols" THEN maxCol - n ELSE col,
                      !.destCol = IF op = "insertCols" THEN col ELSE maxCol - n,
                      !.chain0 = chain]
        /\ UNCHANGED <<chain, prevChain, last, steps, segVars, posVars, jsonVars, cloneVars, docVars>>

\* one sub-step of the row move.r; after the second one the loop advances
\* and tests 'r < this.numRows' again
MoveStep ==
    /\ move.pc = "running"
    /\ LET step == moveRowSteps(move.rowStart, move.srcCol, move.destCol,
                                move.numCols)[move.i]
           c == ApplyStep(chain, step)
           m == [move EXCEPT !.log = move.log \o StepSubmitted(chain, step)]
       IN  /\ chain' = c
           /\ move' = IF move.i = 1 THEN [m EXCEPT !.i = 2]
                      ELSE [m EXCEPT !.i = 1, !.r = move.r + 1,
                                     !.rowStart = move.rowStart + maxCols,
                                     !.pc = IF move.r + 1 < numRows(c) THEN "running"
                                            ELSE "done"]
    /\ UNCHANGED <<prevChain, last, steps, segVars, posVars, jsonVars, cloneVars, docVars>>

\* the engine call of the pending sub-step throws: the error propagates out
\* of moveAsPadding, nothing is undone
MoveFail ==
    /\ move.pc = "running"
    /\ move' = [move EXCEPT !.pc = "failed", !.error = EngineError]
    /\ UNCHANGED <<chain, prevChain, last, steps, segVars, posVars, jsonVars, cloneVars, docVars>>

\* an edit of another origin, applied between the removal and the insertion
\* of a row
MoveConcurrentEdit ==
    \E row \in 0..MaxRows, op \in {"setItems", "insertRows", "removeRows"} :
        /\ move.pc = "running" /\ move.i = 2 /\ move.edit = NoOp
        /\ rowColToPosition(row, 0) <= getLength(chain)
        /\ LET c == IF op = "setItems" THEN setItems(chain, row, 0, <<"b">>, Undefined)
                    ELSE IF op = "insertRows" THEN insertRows(chain, row, 1)
                    ELSE removeRows(chain, row, 1)
           IN  /\ numRows(c) <= MaxRows + 1
               /\ chain' = c
        /\ move' = [move EXCEPT !.edit = [NoOp EXCEPT !.op = op, !.row = row,
                                                      !.count = 1]]
        /\ UNCHANGED <<prevChain, last, steps, segVars, posVars, jsonVars, cloneVars, docVars>>

MoveNext == MoveBegin \/ MoveStep \/ MoveFail \/ MoveConcurrentEdit

SpecMove == MoveInit /\ [][MoveNext]_vars

----------------------------------------------------------------------------
(* Properties of the segments (checked under SpecSeg).                     *)

\* C1: every run segment, the mutated receiver and the sibling or copy an
\* operation returned alike, has as many values as tags, and that many is
\* its length.
C1_RunLengthsAgree ==
    \A s \in {seg, other} :
        RunSegment_is(s) =>
            /\ Len(s.items) = Len(s.tags)
            /\ Len(s.items) = s.cachedLength

C1_Witness ==
    /\ segOp.op = "split"
    /\ RunSegment_is(seg) /\ RunSegment_is(other)
    /\ seg.cachedLength >= 1 /\ other.cachedLength >= 2
    /\ \E i \in DOMAIN prevSeg.tags : prevSeg.tags[i] # Undefined

\* C8: splitting a run segment of length L at 0 < k < L leaves values and
\* tags that concatenate to the original ones, the sibling inheriting
\* seq/clientId; splitting at 0 returns no sibling and changes nothing.
C8_SplitLaw ==
    (segOp.op = "split" /\ RunSegment_is(prevSeg)) =>
        /\ (0 < segOp.a /\ segOp.a < prevSeg.cachedLength) =>
              /\ RunSegment_is(other)
              /\ Len(seg.items) = segOp.a
              /\ seg.items \o other.items = prevSeg.items
              /\ seg.tags \o other.tags = prevSeg.tags
              /\ other.seq = prevSeg.seq /\ other.clientId = prevSeg.clientId
              /\ seg.seq = prevSeg.seq /\ seg.clientId = prevSeg.clientId
        /\ segOp.a = 0 => (other = NoSegment /\ seg = prevSeg)

C8_Witness ==
    /\ segOp.op = "split" /\ RunSegment_is(prevSeg)
    /\ 0 < segOp.a /\ segOp.a < prevSeg.cachedLength
    /\ prevSeg.seq = 1
    /\ \E i \in DOMAIN other.tags : other.tags[i] # Undefined

\* C9: appending run B to run A leaves A's values followed by B's and A's
\* tags followed by B's; splitting the result at A's original length gives
\* back A's and B's contents, and appending the sibling of a split gives
\* back the segment that was split.
C9_AppendLaw ==
    /\ (segOp.op = "append" /\ RunSegment_is(prevSeg)) =>
          /\ seg.items = prevSeg.items \o other.items
          /\ seg.tags = prevSeg.tags \o other.tags
          /\ prevSeg.cachedLength > 0 =>
                LET r == RunSegment_createSplitSegmentAt(seg, prevSeg.cachedLength)
                IN  /\ r.this.items = prevSeg.items /\ r.this.tags = prevSeg.tags
                    /\ r.ret.items = other.items /\ r.ret.tags = other.tags
    /\ (segOp.op = "split" /\ RunSegment_is(prevSeg) /\ RunSegment_is(other)) =>
          LET r == RunSegment_append(seg, other)
          IN  r.items = prevSeg.items /\ r.tags = prevSeg.tags

C9_Witness ==
    /\ segOp.op = "append" /\ RunSegment_is(prevSeg)
    /\ prevSeg.cachedLength >= 1
    /\ \E i \in DOMAIN prevSeg.tags : prevSeg.tags[i] = Undefined
    /\ \E i \in DOMAIN other.tags : other.tags[i] # Undefined

\* C10: padding of length m appended to padding of length n has length
\* n + m; removeRange(start, end) on a padding segment subtracts end - start
\* and returns true exactly when the length left is zero.
C10_PaddingMerge ==
    /\ (segOp.op = "append" /\ PaddingSegment_is(prevSeg) /\ PaddingSegment_is(other)) =>
          seg.cachedLength = prevSeg.cachedLength + other.cachedLength
    /\ (segOp.op = "removeRange" /\ PaddingSegment_is(prevSeg)) =>
          /\ seg.cachedLength = prevSeg.cachedLength - (segOp.b - segOp.a)
          /\ segOp.ret <=> (seg.cachedLength = 0)

C10_Witness ==
    /\ segOp.op = "removeRange" /\ PaddingSegment_is(prevSeg)
    /\ prevSeg.cachedLength >= 2
    /\ segOp.ret

\* C20: splitting a padding segment of length L at pos leaves it with length
\* pos and returns a new padding segment of length L - pos with the same seq
\* and clientId; the two lengths sum to L, and the outcome is a function of L
\* and pos (and the provenance handed on) alone, whatever properties or
\* local references the segment carries.
C20_PaddingSplit ==
    (segOp.op = "split" /\ PaddingSegment_is(prevSeg)) =>
        /\ seg = [prevSeg EXCEPT !.cachedLength = segOp.a]
        /\ other = PaddingSegment(prevSeg.cachedLength - segOp.a,
                                  prevSeg.seq, prevSeg.clientId)
        /\ seg.cachedLength + other.cachedLength = prevSeg.cachedLength
        /\ other.seq = prevSeg.seq /\ other.clientId = prevSeg.clientId

\* a padding segment of the largest length, with properties, local references
\* and a provenance of its own, was split inside
C20_Witness ==
    /\ segOp.op = "split" /\ PaddingSegment_is(prevSeg)
    /\ prevSeg.cachedLength = MaxPad /\ 0 < segOp.a /\ segOp.a < MaxPad
    /\ prevSeg.seq # UniversalSequenceNumber
    /\ prevSeg.properties # Undefined /\ prevSeg.localRefs # {}

\* C11: PaddingSegment.append handed a segment that is not padding fails
\* with InvalidAppend and leaves the receiver, its length and its local
\* references as they were; handed a padding segment it does not fail, moves
\* the argument's local references to the receiver at their offset plus the
\* receiver's length before the append, and then grows the length.
C11_AppendGuard ==
    (segOp.op = "append" /\ PaddingSegment_is(prevSeg)) =>
        /\ ~PaddingSegment_is(other) =>
              /\ segOp.error = InvalidAppend
              /\ seg = prevSeg
        /\ PaddingSegment_is(other) =>
              /\ segOp.error = Undefined
              /\ seg.localRefs = prevSeg.localRefs
                    \cup {r + prevSeg.cachedLength : r \in other.localRefs}
              /\ seg.cachedLength = prevSeg.cachedLength + other.cachedLength

\* a padding receiver that carries local references was handed a run segment
C11_Witness ==
    /\ segOp.op = "append" /\ segOp.error = InvalidAppend
    /\ PaddingSegment_is(prevSeg) /\ RunSegment_is(other)
    /\ prevSeg.localRefs # {} /\ prevSeg.cachedLength >= 2

----------------------------------------------------------------------------
(* SpecPos: the two addressing functions applied to drawn inputs: a cell   *)
(* (row, col) of the declared range, or a representable position of it.    *)

LastPosition == maxRow * maxCols + maxCol

PosInit ==
    /\ posIn \in
          {[kind |-> "rowCol", row |-> r, col |-> c, position |-> 0] :
              r \in 0..maxRow, c \in 0..maxCol}
          \cup {[kind |-> "position", row |-> 0, col |-> 0, position |-> q] :
              q \in {x \in 0..LastPosition : ToNumber(x) = x}}
    /\ posOut = [done |-> FALSE, position |-> 0, rowCol |-> NoPos]
    /\ SegIdle /\ MatIdle /\ JsonIdle /\ move = MoveIdle /\ CloneIdle /\ DocIdle

\* positionToRowCol(rowColToPosition(row, col))
PosThereAndBack ==
    /\ posIn.kind = "rowCol" /\ ~posOut.done
    /\ LET position == rowColToPosition(posIn.row, posIn.col)
       IN  posOut' = [done |-> TRUE, position |-> position,
                      rowCol |-> positionToRowCol(position)]
    /\ UNCHANGED <<posIn, segVars, matVars, jsonVars, moveVars, cloneVars, docVars>>

\* rowColToPosition(positionToRowCol(position))
PosBackAndThere ==
    /\ posIn.kind = "position" /\ ~posOut.done
    /\ LET rc == positionToRowCol(posIn.position)
       IN  posOut' = [done |-> TRUE, position |-> rowColToPosition(rc.row, rc.col),
                      rowCol |-> rc]
    /\ UNCHANGED <<posIn, segVars, matVars, jsonVars, moveVars, cloneVars, docVars>>

PosNext == PosThereAndBack \/ PosBackAndThere

SpecPos == PosInit /\ [][PosNext]_vars

\* C7: every cell of [0, maxRow] x [0, maxCol] maps to a position that maps
\* back to the same cell, and every representable position of the range maps
\* to a cell with col < maxCols that maps back to the position.
C7_Bijection ==
    posOut.done =>
        /\ posIn.kind = "rowCol" =>
              posOut.rowCol = [row |-> posIn.row, col |-> posIn.col]
        /\ posIn.kind = "position" =>
              /\ posOut.position = posIn.position
              /\ 0 <= posOut.rowCol.col /\ posOut.rowCol.col < maxCols

----------------------------------------------------------------------------
(* Properties of the facade (checked under Spec).                          *)

Absent == [error |-> Undefined, value |-> Undefined]
Cells == (0..MaxRows) \X (0..maxCol)
HasRun(c) == \E i \in DOMAIN c : RunSegment_is(c[i])
RowsOf(c) == 0..(numRows(c) - 1)

\* C2: after setItems(row, col, values), getItem(row, col + i) returns
\* values[i] for every i, and getItem on a cell that was never written
\* returns absent without failing (here: every cell outside the written
\* range of a matrix that held no value before the call).
C2_RoundTrip ==
    last.op = "setItems" =>
        /\ \A i \in DOMAIN last.values :
              getItem(chain, last.row, last.col + i - 1)
                  = [error |-> Undefined, value |-> last.values[i]]
        /\ ~HasRun(prevChain) =>
              \A rc \in Cells :
                  LET pos == rowColToPosition(rc[1], rc[2])
                      start == rowColToPosition(last.row, last.col)
                  IN  (pos < start \/ pos >= start + Len(last.values)) =>
                          getItem(chain, rc[1], rc[2]) = Absent

\* C3 as claimed: after insertCols(c, n), in every row the cells at columns
\* < c are unchanged, every value formerly at a column c' >= c is readable at
\* c' + n, and the columns [c, c + n) read as absent.
C3_ColumnShiftAsClaimed ==
    last.op = "insertCols" =>
        \A r \in RowsOf(prevChain) :
            /\ \A c \in 0..(last.col - 1) :
                  getItem(chain, r, c) = getItem(prevChain, r, c)
            /\ \A c \in last.col..maxCol :
                  getItem(prevChain, r, c).value # Undefined =>
                      getItem(chain, r, c + last.count) = getItem(prevChain, r, c)
            /\ \A c \in last.col..(last.col + last.count - 1) :
                  getItem(chain, r, c) = Absent

\* C3, amended: after insertCols(c, n) with c + n <= maxCol, in every row the
\* cells at columns < c are unchanged, every value formerly at a column c'
\* with c <= c' < maxCol - n is readable at c' + n, the columns [c, c + n)
\* read as absent, the values formerly in [maxCol - n, maxCol) are gone and
\* column maxCol reads as before.
C3_ColumnShift ==
    (last.op = "insertCols" /\ last.col + last.count <= maxCol) =>
        \A r \in RowsOf(prevChain) :
            /\ \A c \in 0..(last.col - 1) :
                  getItem(chain, r, c) = getItem(prevChain, r, c)
            /\ \A c \in last.col..(maxCol - last.count - 1) :
                  getItem(chain, r, c + last.count) = getItem(prevChain, r, c)
            /\ \A c \in last.col..(last.col + last.count - 1) :
                  getItem(chain, r, c) = Absent
            /\ getItem(chain, r, maxCol) = getItem(prevChain, r, maxCol)

C3_Witness ==
    /\ last.op = "insertCols" /\ last.col + last.count <= maxCol
    /\ last.col >= 1
    /\ \E r \in RowsOf(prevChain) :
          /\ getItem(prevChain, r, last.col - 1).value # Undefined
          /\ \E c \in last.col..(maxCol - last.count - 1) :
                getItem(prevChain, r, c).value # Undefined

\* C4: numRows is floor(length / maxCols); insertRows(r, n) raises it by n,
\* and removeRows(r, n) with rows [r, r + n) inside the extent lowers it by n.
C4_RowCount ==
    /\ numRows(chain) = getLength(chain) \div maxCols
    /\ last.op = "insertRows" => numRows(chain) = numRows(prevChain) + last.count
    /\ (last.op = "removeRows" /\ last.row + last.count <= numRows(prevChain)) =>
          numRows(chain) = numRows(prevChain) - last.count

C4_Witness ==
    /\ last.op = "removeRows"
    /\ last.row + last.count <= numRows(prevChain)
    /\ HasRun(prevChain)
    /\ numRows(chain) >= 1

\* C5: insertCols and removeCols leave the total extent as it was, and with
\* it the number of rows and the start of every row: the cells before the
\* first column the call touches read as before.
C5_ExtentKept ==
    last.op \in {"insertCols", "removeCols"} =>
        /\ getLength(chain) = getLength(prevChain)
        /\ numRows(chain) = numRows(prevChain)
        /\ \A r \in RowsOf(prevChain) :
              \A c \in 0..(Min(last.col, maxCol - last.count) - 1) :
                  getItem(chain, r, c) = getItem(prevChain, r, c)

C5_Witness ==
    /\ last.op = "removeCols"
    /\ numRows(prevChain) = 2
    /\ last.col >= 1
    /\ \E r \in RowsOf(prevChain) : getItem(prevChain, r, last.col).value # Undefined
    /\ getItem(prevChain, 1, 0).value # Undefined

\* C6: setTag on a cell covered by a run segment makes getTag return the
\* tag; on any other cell a non-absent tag fails with InvalidTagTarget and
\* changes nothing, an absent tag is a no-op that does not fail, and getTag
\* returns absent.
C6_TagContract ==
    last.op = "setTag" =>
        LET pos == rowColToPosition(last.row, last.col)
            covered == RunSegment_is(segmentAt(prevChain, pos))
        IN  /\ covered =>
                  /\ last.error = Undefined
                  /\ getTag(chain, last.row, last.col)
                        = [error |-> Undefined, value |-> last.tag]
            /\ (~covered /\ last.tag # Undefined) =>
                  (last.error = InvalidTagTarget /\ chain = prevChain)
            /\ (~covered /\ last.tag = Undefined) =>
                  (last.error = Undefined /\ chain = prevChain)
            /\ ~covered => getTag(prevChain, last.row, last.col) = Absent

\* the positions at which the engine finds a segment
Located(c) == {p \in 0..(getLength(c) + maxCols) : getContainingSegment(c, p).index # 0}

\* C12: in every state the facade operations reach, with empty value lists
\* and counts of 0 among their arguments, every attached segment has a
\* length > 0, and the lengths sum to the total linear extent: the positions
\* below the sum are exactly those at which a segment is found.
C12_SegmentsPositive ==
    /\ \A i \in DOMAIN chain : chain[i].cachedLength > 0
    /\ Located(chain) = 0..(getLength(chain) - 1)

\* an empty value list was written into a matrix that holds values, after a
\* call with a count of 0 or a removal
C12_Witness ==
    /\ last.op = "setItems" /\ last.values = <<>>
    /\ HasRun(chain) /\ Len(chain) >= 2
    /\ steps = MaxOps

----------------------------------------------------------------------------
(* Properties of the serialized records (checked under SpecJson).          *)

PadShape(spec) == IsObject(spec) /\ In("pad", spec)
RunShape(spec) == IsObject(spec) /\ In("items", spec)

\* C13: segmentFromSpec returns a padding segment whenever the record has
\* the padding shape, also when it has the run shape as well; otherwise a run
\* segment when it has the run shape; it fails with UnrecognizedSegment
\* exactly when it has neither, and returns no other kind of segment.
C13_Dispatch ==
    loaded.op = "segmentFromSpec" =>
        /\ PadShape(json) =>
              (loaded.error = Undefined /\ PaddingSegment_is(loaded.segment))
        /\ (~PadShape(json) /\ RunShape(json)) =>
              (loaded.error = Undefined /\ RunSegment_is(loaded.segment))
        /\ (loaded.error = UnrecognizedSegment) <=> (~PadShape(json) /\ ~RunShape(json))
        /\ loaded.error = Undefined =>
              (PaddingSegment_is(loaded.segment) \/ RunSegment_is(loaded.segment))
        /\ loaded.error \in {Undefined, UnrecognizedSegment}

\* a record with both shapes was read
C13_Witness ==
    /\ loaded.op = "segmentFromSpec"
    /\ PadShape(json) /\ RunShape(json)
    /\ Len(Get(json, "items")) >= 1
    /\ PaddingSegment_is(loaded.segment)

\* C14: the record of a run segment holds no tags, and reading it back gives
\* a run segment with the same values in order and a tag array of the same
\* length that is absent everywhere.
C14_TagsDropped ==
    RunSegment_is(source) =>
        /\ DOMAIN json.fields \subseteq {"items", "props"}
        /\ loaded.op = "segmentFromSpec" =>
              /\ loaded.error = Undefined
              /\ RunSegment_is(loaded.segment)
              /\ loaded.segment.items = source.items
              /\ loaded.segment.tags = FillUndefined(Len(source.items))
              /\ loaded.segment.cachedLength = Len(source.items)

\* a run segment with a tag was serialized and read back
C14_Witness ==
    /\ RunSegment_is(source) /\ loaded.op = "segmentFromSpec"
    /\ Len(source.items) = MaxItems
    /\ \E i \in DOMAIN source.tags : source.tags[i] # Undefined

\* the padding segment read back from the record of source
ReadBack ==
    /\ loaded.error = Undefined
    /\ PaddingSegment_is(loaded.segment)
    /\ loaded.segment.cachedLength = source.cachedLength
    /\ loaded.segment.properties = source.properties

----------------------------------------------------------------------------
(* Properties of the structural operations (checked under Spec).           *)

\* what the chain holds at a linear position
ItemAt(c, pos) ==
    LET loc == getContainingSegment(c, pos)
    IN  IF loc.index = 0
        THEN [present |-> FALSE, value |-> Undefined, tag |-> Undefined]
        ELSE IF RunSegment_is(c[loc.index])
        THEN [present |-> TRUE, value |-> c[loc.index].items[loc.offset + 1],
              tag |-> RunSegment_getTag(c[loc.index], loc.offset)]
        ELSE [present |-> TRUE, value |-> Undefined, tag |-> Undefined]

Positions(c) == 0..(getLength(c) - 1)

\* segment i of c starts at linear position pos
StartsAt(c, i, pos) == getLength(SubSeq(c, 1, i - 1)) = pos

\* the run segment setItems builds
FreshRun(values, props) ==
    addProperties(RunSegment(values, UniversalSequenceNumber, LocalClientId), props)

\* the range [start, start + Len(values)) of the chain before the call was
\* replaced by one fresh run segment, and one structural change submitted
RangeReplaced ==
    LET start == rowColToPosition(last.row, last.col)
        n == Len(last.values)
        held == Max(0, Min(start + n, getLength(prevChain)) - start)
    IN  /\ getLength(chain) = getLength(prevChain) - held + n
        /\ \A q \in Positions(chain) :
              /\ q < start => ItemAt(chain, q) = ItemAt(prevChain, q)
              /\ q >= start + n => ItemAt(chain, q) = ItemAt(prevChain, q)
        /\ \E i \in DOMAIN chain :
              /\ chain[i] = FreshRun(last.values, last.props)
              /\ StartsAt(chain, i, start)
        /\ last.submitted = 1

\* C16 as claimed: setItems replaces exactly the range [toPosition(row, col),
\* + values.length) with one fresh run segment that holds the values, and
\* the properties if given, and exactly one structural change is submitted
\* per call.
C16_SetItemsAsClaimed == last.op = "setItems" => RangeReplaced

\* C16, amended: for a non-empty list of values setItems replaces exactly
\* the range with one fresh run segment that holds the values, and the
\* properties if given, and one structural change is submitted; for an empty
\* list no segment is attached, the chain is left as it was and no
\* structural change is submitted.
C16_SetItems ==
    last.op = "setItems" =>
        /\ Len(last.values) >= 1 => RangeReplaced
        /\ Len(last.values) = 0 => (chain = prevChain /\ last.submitted = 0)

\* values with properties were written over the end of a run segment and the
\* padding that follows it
C16_Witness ==
    /\ last.op = "setItems" /\ Len(last.values) = MaxItems /\ last.props # Undefined
    /\ LET start == rowColToPosition(last.row, last.col)
       IN  /\ start >= 1
           /\ ItemAt(prevChain, start).value # Undefined
           /\ ItemAt(prevChain, start - 1).value # Undefined
           /\ ItemAt(prevChain, start + 1).present
           /\ ItemAt(prevChain, start + 1).value = Undefined
           /\ ItemAt(prevChain, start + 2).present

\* one padding segment of length count * maxCols was inserted at the start
\* of row last.row, and one structural change submitted; the inserted rows
\* read as absent
RowsInserted ==
    LET pos == rowColToPosition(last.row, 0)
        size == last.count * maxCols
    IN  /\ \E i \in DOMAIN chain :
              /\ chain[i] = PaddingSegment(size, UniversalSequenceNumber, LocalClientId)
              /\ StartsAt(chain, i, pos)
        /\ Len(chain) <= Len(prevChain) + 2
        /\ getLength(chain) = getLength(prevChain) + size
        /\ \A q \in Positions(prevChain) :
              ItemAt(prevChain, q) = ItemAt(chain, IF q < pos THEN q ELSE q + size)
        /\ last.submitted = 1
        /\ \A r \in last.row..(last.row + last.count - 1), c \in 0..maxCol :
              getItem(chain, r, c) = Absent

\* exactly the part of [pos, pos + count * maxCols) the chain held was removed
RowsRemoved ==
    LET pos == rowColToPosition(last.row, 0)
        size == last.count * maxCols
        held == Max(0, Min(pos + size, getLength(prevChain)) - pos)
    IN  /\ getLength(chain) = getLength(prevChain) - held
        /\ \A q \in Positions(chain) :
              ItemAt(chain, q) = ItemAt(prevChain, IF q < pos THEN q ELSE q + size)

\* C17 as claimed: insertRows(row, count) inserts exactly one padding
\* segment of length count * maxCols at toPosition(row, 0) and submits one
\* structural change, after which every cell of the inserted rows reads
\* absent (on the empty matrix insertRows(0, 2) gives 2 rows);
\* removeRows(row, count) removes exactly the range
\* [toPosition(row, 0), + count * maxCols).
C17_RowsAsClaimed ==
    /\ last.op = "insertRows" => RowsInserted
    /\ last.op = "removeRows" => RowsRemoved

\* C17, amended: the same for count >= 1; insertRows(row, 0) inserts no
\* segment, leaves the chain as it was and submits no structural change.
C17_Rows ==
    /\ (last.op = "insertRows" /\ last.count >= 1) => RowsInserted
    /\ (last.op = "insertRows" /\ last.count = 0) =>
          (chain = prevChain /\ last.submitted = 0)
    /\ (last.op = "insertRows" /\ prevChain = <<>> /\ last.row = 0) =>
          numRows(chain) = last.count
    /\ last.op = "removeRows" => RowsRemoved

\* on the empty matrix insertRows(0, 2) gave two rows
C17_Witness ==
    /\ last.op = "insertRows" /\ prevChain = <<>>
    /\ last.row = 0 /\ last.count = 2
    /\ numRows(chain) = 2
    /\ getItem(chain, 1, maxCol) = Absent

----------------------------------------------------------------------------
(* Properties of moveAsPadding, sub-step by sub-step (checked under        *)
(* SpecMove).                                                              *)

\* rows of the matrix at the call
Rows0 == 0..(numRows(move.chain0) - 1)

\* the log holds, for the rows in ascending order, the removal of
\* [rowStart + srcCol, + numCols) and then the insertion of padding of
\* length numCols at rowStart + destCol: two submitted changes per row
TwoPerRow ==
    /\ Len(move.log) = 2 * numRows(move.chain0)
    /\ \A r \in Rows0 :
          /\ move.log[2 * r + 1] =
                [op |-> "remove", a |-> r * maxCols + move.srcCol,
                 b |-> r * maxCols + move.srcCol + move.numCols]
          /\ move.log[2 * r + 2] =
                [op |-> "insert", a |-> r * maxCols + move.destCol, b |-> move.numCols]

\* between the two sub-steps of a row the removed cells are missing from the
\* extent
BetweenSubSteps ==
    (move.pc = "running" /\ move.i = 2 /\ move.edit = NoOp) =>
        /\ getLength(chain) = getLength(move.chain0) - move.numCols
        /\ move.numCols >= 1 => getLength(chain) % maxCols # 0

\* C18 as claimed: moveAsPadding over R rows performs, for r = 0..R-1 in
\* ascending order, the removal of the row's slice and then the insertion of
\* a padding segment of length count, two submitted structural changes per
\* row and 2R in all; the sub-steps are not atomic: between them the total
\* extent is not a multiple of maxCols.
C18_SubStepsAsClaimed ==
    /\ (move.pc = "done" /\ move.edit = NoOp) => TwoPerRow
    /\ BetweenSubSteps

\* C18, amended: the same for count >= 1; for count = 0 no padding is
\* inserted and no insertion submitted.  Without an edit in between, the
\* sub-steps add up to the call's result.
C18_SubSteps ==
    /\ (move.pc = "done" /\ move.edit = NoOp /\ move.numCols >= 1) => TwoPerRow
    /\ (move.pc = "done" /\ move.edit = NoOp /\ move.numCols = 0) =>
          /\ \A k \in DOMAIN move.log : move.log[k].op = "remove"
          /\ chain = move.chain0
    /\ (move.pc = "done" /\ move.edit = NoOp) =>
          chain = moveAsPadding(move.chain0, move.srcCol, move.destCol, move.numCols)
    /\ BetweenSubSteps

\* an edit was applied between the removal and the insertion of a row, and
\* the call ended with an extent that is no whole number of rows
C18_Witness ==
    /\ move.pc = "done" /\ move.edit # NoOp
    /\ move.numCols >= 1 /\ Len(move.log) >= 2
    /\ getLength(move.chain0) % maxCols = 0
    /\ getLength(chain) % maxCols # 0

\* the chain the whole call would have produced
NewLayout == moveAsPadding(move.chain0, move.srcCol, move.destCol, move.numCols)

\* the call failed in a sub-step of row move.r with no edit in between: the
\* error reached the caller and the rows before move.r have the new layout
FailedAfterRows ==
    /\ move.error = EngineError
    /\ \A r \in Rows0, c \in 0..maxCol :
          r < move.r => ItemAt(chain, r * maxCols + c) = ItemAt(NewLayout, r * maxCols + c)

\* C19 as claimed: when insertCols/removeCols fails in the sub-step for row
\* k nothing is rolled back and the error propagates: every row r < k has
\* the new layout and every row r > k the old one.
C19_PartialMoveAsClaimed ==
    (move.pc = "failed" /\ move.edit = NoOp) =>
        /\ FailedAfterRows
        /\ \A r \in Rows0, c \in 0..maxCol :
              r > move.r =>
                  ItemAt(chain, r * maxCols + c) = ItemAt(move.chain0, r * maxCols + c)

\* C19, amended: every row r < k has the new layout; when the removal of row
\* k failed, every row r >= k has the old layout; when the insertion of row
\* k failed, the removal of row k is not undone: the extent is short of
\* count cells and the cells of every row r > k are those of before, at
\* linear positions lower by count.
C19_PartialMove ==
    (move.pc = "failed" /\ move.edit = NoOp) =>
        LET shift == IF move.i = 2 THEN move.numCols ELSE 0
        IN  /\ FailedAfterRows
            /\ getLength(chain) = getLength(move.chain0) - shift
            /\ \A r \in Rows0, c \in 0..maxCol :
                  (r > move.r \/ (r = move.r /\ move.i = 1)) =>
                      ItemAt(chain, r * maxCols + c - shift)
                          = ItemAt(move.chain0, r * maxCols + c)

\* the insertion of row 0 failed after its removal, in a matrix whose row 1
\* holds values
C19_Witness ==
    /\ move.pc = "failed" /\ move.edit = NoOp
    /\ move.r = 0 /\ move.i = 2 /\ move.numCols >= 1
    /\ numRows(move.chain0) = 2
    /\ \E c \in 0..maxCol : ItemAt(move.chain0, maxCols + c).value # Undefined

----------------------------------------------------------------------------
(* SpecClone: a run segment and its clone, each mutated after the clone.   *)
(* seg is the source and other the copy, as their fields read; the arrays  *)
(* behind the fields live in cloned.heap, so that a write through one      *)
(* reference is read through every reference to the same array.            *)

CloneSources ==
    {addProperties([RunSegment(items, 1, 1) EXCEPT !.tags = tags], props) :
        <<items, tags, props>> \in
            UNION {[1..n -> Values] \X [1..n -> Tags] \X PropertySets : n \in 1..MaxItems}}

CloneArgs ==
    {[RunSegment(<<"b">>, UniversalSequenceNumber, LocalClientId) EXCEPT !.tags = <<t>>] :
        t \in Tags}

\* mutant: the clone keeps the source's tag array
RunSegment_clone_refs_sameTags(refs, fresh) == [items |-> fresh, tags |-> refs.tags]

\* the arrays of the clone: 'this.items.slice(start, end)' and
\* 'this.tags.slice(start, end)' each allocate an array
RunSegment_clone_refs(refs, fresh) == [items |-> fresh, tags |-> fresh + 1]

\* the mutating operations of a run segment, by name
CloneOps(s) ==
    {[op |-> "setTag", a |-> pos, b |-> 0, tag |-> tag, arg |-> NoSegment] :
        <<pos, tag>> \in (0..(s.cachedLength - 1)) \X Tags}
    \cup {[op |-> "append", a |-> 0, b |-> 0, tag |-> Undefined, arg |-> b] :
            b \in {x \in CloneArgs : s.cachedLength + x.cachedLength <= MaxRunLen}}
    \cup {[op |-> "removeRange", a |-> r[1], b |-> r[2], tag |-> Undefined, arg |-> NoSegment] :
            r \in {x \in (0..s.cachedLength) \X (0..s.cachedLength) : x[1] < x[2]}}
    \cup {[op |-> "split", a |-> pos, b |-> 0, tag |-> Undefined, arg |-> NoSegment] :
            pos \in 0..s.cachedLength}

ApplyCloneOp(s, o) ==
    CASE o.op = "setTag" -> RunSegment_setTag(s, o.a, o.tag)
      [] o.op = "append" -> RunSegment_append(s, o.arg)
      [] o.op = "removeRange" -> RunSegment_removeRange(s, o.a, o.b).this
      [] o.op = "split" -> RunSegment_createSplitSegmentAt(s, o.a).this

\* the heap after the operation o turned the segment behind refs into s2:
\* the tag array is written in place by every operation
\* ('this.tags[pos] = tag', 'this.tags.splice', 'this.tags.length = pos'),
\* the items array in place by the base class's append and removeRange;
\* a split assigns 'this.items' a new array
HeapAfter(heap, refs, o, s2) ==
    LET h1 == [heap EXCEPT ![refs.tags] = s2.tags]
    IN  IF o.op = "split" /\ o.a > 0 THEN Append(h1, s2.items)
        ELSE IF o.op \in {"append", "removeRange"} THEN [h1 EXCEPT ![refs.items] = s2.items]
        ELSE h1

RefsAfter(heap, refs, o) ==
    IF o.op = "split" /\ o.a > 0 THEN [refs EXCEPT !.items = Len(heap) + 1] ELSE refs

\* the fields of s read through its references
ReadThrough(s, heap, refs) == [s EXCEPT !.items = heap[refs.items], !.tags = heap[refs.tags]]

CloneInit ==
    /\ seg \in CloneSources
    /\ other = NoSegment /\ prevSeg = NoSegment /\ segOp = NoSegOp
    /\ cloned = [NoClone EXCEPT !.heap = <<seg.items, seg.tags>>,
                                !.refs.source = [items |-> 1, tags |-> 2],
                                !.alone.source = seg]
    /\ PosIdle /\ MatIdle /\ JsonIdle /\ move = MoveIdle /\ DocIdle

CloneRun ==
    \E start \in 0..seg.cachedLength, end \in 0..seg.cachedLength :
        /\ other = NoSegment
        /\ start <= end
        /\ LET b == RunSegment_clone(seg, start, end)
               refs == RunSegment_clone_refs(cloned.refs.source, Len(cloned.heap) + 1)
               heap == [i \in 1..(Len(cloned.heap) + 2) |->
                           IF i <= Len(cloned.heap) THEN cloned.heap[i]
                           ELSE IF i = Len(cloned.heap) + 1 THEN b.items ELSE b.tags]
           IN  /\ other' = ReadThrough(b, heap, refs)
               /\ cloned' = [cloned EXCEPT !.heap = heap, !.refs.copy = refs,
                                           !.alone.copy = b, !.side = "none"]
        /\ segOp' = [NoSegOp EXCEPT !.op = "clone", !.a = start, !.b = end]
        /\ prevSeg' = seg
        /\ UNCHANGED <<seg, posVars, matVars, jsonVars, moveVars, docVars>>

CloneMutateSource ==
    \E o \in CloneOps(seg) :
        /\ other # NoSegment
        /\ cloned.n < MaxCloneOps
        /\ LET s2 == ApplyCloneOp(seg, o)
               heap == HeapAfter(cloned.heap, cloned.refs.source, o, s2)
               refs == RefsAfter(cloned.heap, cloned.refs.source, o)
           IN  /\ seg' = ReadThrough(s2, heap, refs)
               /\ other' = ReadThrough(other, heap, cloned.refs.copy)
               /\ cloned' = [cloned EXCEPT !.heap = heap, !.refs.source = refs,
                                           !.alone.source = ApplyCloneOp(@, o),
                                           !.side = "source", !.n = @ + 1]
        /\ segOp' = [NoSegOp EXCEPT !.op = o.op, !.a = o.a, !.b = o.b]
        /\ prevSeg' = seg
        /\ UNCHANGED <<posVars, matVars, jsonVars, moveVars, docVars>>

CloneMutateCopy ==
    \E o \in CloneOps(other) :
        /\ other # NoSegment
        /\ cloned.n < MaxCloneOps
        /\ LET s2 == ApplyCloneOp(other, o)
               heap == HeapAfter(cloned.heap, cloned.refs.copy, o, s2)
               refs == RefsAfter(cloned.heap, cloned.refs.copy, o)
           IN  /\ other' = ReadThrough(s2, heap, refs)
               /\ seg' = ReadThrough(seg, heap, cloned.refs.source)
               /\ cloned' = [cloned EXCEPT !.heap = heap, !.refs.copy = refs,
                                           !.alone.copy = ApplyCloneOp(@, o),
                                           !.side = "copy", !.n = @ + 1]
        /\ segOp' = [NoSegOp EXCEPT !.op = o.op, !.a = o.a, !.b = o.b]
        /\ prevSeg' = other
        /\ UNCHANGED <<posVars, matVars, jsonVars, moveVars, docVars>>

CloneNext == CloneRun \/ CloneMutateSource \/ CloneMutateCopy

SpecClone == CloneInit /\ [][CloneNext]_vars

\* C21: RunSegment.clone(start, end) returns a run segment holding exactly
\* the source's values and tags of [start, end) and leaves the source as it
\* was; afterwards a setTag, append, removeRange or split on either segment
\* leaves the values and tags of the other as they would be had the call
\* never been made.
C21_CloneIndependent ==
    other # NoSegment =>
        /\ segOp.op = "clone" =>
              /\ RunSegment_is(other)
              /\ other.items = Slice(prevSeg.items, segOp.a, segOp.b)
              /\ other.tags = Slice(prevSeg.tags, segOp.a, segOp.b)
              /\ other.cachedLength = segOp.b - segOp.a
              /\ seg = prevSeg
        /\ {cloned.refs.source.items, cloned.refs.source.tags}
              \cap {cloned.refs.copy.items, cloned.refs.copy.tags} = {}
        /\ seg.items = cloned.alone.source.items
        /\ seg.tags = cloned.alone.source.tags
        /\ other.items = cloned.alone.copy.items
        /\ other.tags = cloned.alone.copy.tags

\* the source's tags were written after a clone that covers the written
\* position
C21_Witness ==
    /\ cloned.side = "source"
    /\ segOp.op = "setTag"
    /\ seg.tags # prevSeg.tags
    /\ other.cachedLength = 2
    /\ other.tags = prevSeg.tags

----------------------------------------------------------------------------
(* The frame of setItems (checked under Spec).                             *)

\* the cells of the extent of c
CellsOf(c) ==
    {rc \in (0..(MaxRows + 1)) \X (0..maxCol) :
        rowColToPosition(rc[1], rc[2]) \in Positions(c)}

\* getItem and getTag read the same at every cell of the extent outside
\* [start, start + Len(values)) after the call as before it
OutsideUnchanged ==
    LET start == rowColToPosition(last.row, last.col)
        n == Len(last.values)
    IN  \A rc \in CellsOf(chain) \cup CellsOf(prevChain) :
            LET q == rowColToPosition(rc[1], rc[2])
            IN  (q < start \/ q >= start + n) =>
                    /\ getItem(chain, rc[1], rc[2]) = getItem(prevChain, rc[1], rc[2])
                    /\ getTag(chain, rc[1], rc[2]) = getTag(prevChain, rc[1], rc[2])

\* every tag inside the written range reads as absent
InsideUntagged ==
    LET start == rowColToPosition(last.row, last.col)
        n == Len(last.values)
    IN  \A rc \in CellsOf(chain) :
            LET q == rowColToPosition(rc[1], rc[2])
            IN  (start <= q /\ q < start + n) =>
                    getTag(chain, rc[1], rc[2]) = [error |-> Undefined, value |-> Undefined]

ExtentUnchanged ==
    /\ getLength(chain) = getLength(prevChain)
    /\ numRows(chain) = numRows(prevChain)

\* C22 as claimed: setItems changes only the cells of its range: every cell
\* of the extent outside the range reads the same value and tag as before,
\* the total extent and the row count are unchanged, and every tag inside
\* the range reads as absent.
C22_FrameAsClaimed ==
    last.op = "setItems" => (OutsideUnchanged /\ InsideUntagged /\ ExtentUnchanged)

\* C22, amended: every cell of the extent outside the range reads the same
\* value and tag as before and every tag inside the range reads as absent;
\* the extent and the row count are unchanged when the range lies within the
\* extent, and a range that ends past the extent extends the extent to the
\* end of the range, the row count following the extent.
C22_Frame ==
    last.op = "setItems" =>
        LET end == rowColToPosition(last.row, last.col) + Len(last.values)
        IN  /\ OutsideUnchanged
            /\ InsideUntagged
            /\ end <= getLength(prevChain) => ExtentUnchanged
            /\ end > getLength(prevChain) =>
                  /\ getLength(chain) = end
                  /\ numRows(chain) = positionToRowCol(end).row

\* a value was written over the first cell of a run segment whose second
\* cell is tagged
C22_Witness ==
    /\ last.op = "setItems" /\ Len(last.values) = 1
    /\ LET start == rowColToPosition(last.row, last.col)
           loc == getContainingSegment(prevChain, start)
       IN  /\ loc.index # 0 /\ loc.offset = 0
           /\ RunSegment_is(prevChain[loc.index])
           /\ prevChain[loc.index].cachedLength = 2
           /\ ItemAt(prevChain, start + 1).tag # Undefined
           /\ ItemAt(chain, start + 1) = ItemAt(prevChain, start + 1)
           /\ ItemAt(chain, start).value = last.values[1]

----------------------------------------------------------------------------
(* The clone of a padding segment (checked under SpecSeg).                 *)

\* C23: PaddingSegment.clone(start, end) with 0 <= start < end <= length
\* returns a padding segment of length end - start, with the source's seq
\* and clientId and a copy of its properties, and leaves the source's length
\* unchanged.
C23_PaddingClone ==
    (/\ segOp.op = "clone"
     /\ PaddingSegment_is(prevSeg)
     /\ 0 <= segOp.a /\ segOp.a < segOp.b /\ segOp.b <= prevSeg.cachedLength) =>
        /\ PaddingSegment_is(other)
        /\ other.cachedLength = segOp.b - segOp.a
        /\ other.seq = prevSeg.seq
        /\ other.clientId = prevSeg.clientId
        /\ other.properties = prevSeg.properties
        /\ seg.cachedLength = prevSeg.cachedLength

----------------------------------------------------------------------------
(* SpecDoc: the event routing of DocumentService.  An object is the        *)
(* function from its own keys to their values; a key it does not own is    *)
(* looked up on Object.prototype.  doc.eventMap is this.eventMap,          *)
(* doc.toStringProps the own enumerable properties of the function         *)
(* Object.prototype.toString, doc.listeners the number of socket.on calls  *)
(* per event, doc.registered the last connection given to registerForEvent *)
(* per (event, documentId, clientId), doc.delivered the dispatchEvent      *)
(* calls of the last socket message, in order.                             *)

MaxRegs == 3

\* the event names connections register for
Events == {"op", "nack"}
DocumentIds == {"doc", "toString"}
ClientIds_ == {"c1", "c2"}
ConnectionObjects == 1..2
Messages == {"m"}

\* connection objects: two objects may carry the same documentId and clientId
Connections == [documentId : DocumentIds, clientId : ClientIds_, object : ConnectionObjects]

\* the names every object inherits from Object.prototype
ObjectPrototype == {"toString"}

\* key in o
HasProperty(o, key) == key \in DOMAIN o \/ key \in ObjectPrototype

\* o[key] = value on the own properties of o
SetProperty(o, key, value) == [k \in DOMAIN o \cup {key} |-> IF k = key THEN value ELSE o[k]]

\* this.eventMap after registerForEvent(event, connection)
registerForEvent_eventMap(d, event, connection) ==
    LET eventMap1 == IF ~HasProperty(d.eventMap, event)
                     THEN SetProperty(d.eventMap, event, EmptyObject)
                     ELSE d.eventMap
        objectMap == eventMap1[event]
        objectMap1 == IF ~HasProperty(objectMap, connection.documentId)
                      THEN SetProperty(objectMap, connection.documentId, EmptyObject)
                      ELSE objectMap
    IN  IF connection.documentId \in DOMAIN objectMap1
        THEN SetProperty(eventMap1, event,
                 SetProperty(objectMap1, connection.documentId,
                     SetProperty(objectMap1[connection.documentId],
                                 connection.clientId, connection)))
        ELSE eventMap1

\* the properties of Object.prototype.toString after the call: an object map
\* that does not own the key "toString" yields the inherited function for
\* it, and 'objectMap[documentId][clientId] = connection' writes on that
registerForEvent_toStringProps(d, event, connection) ==
    LET objectMap == IF event \in DOMAIN d.eventMap THEN d.eventMap[event] ELSE EmptyObject
    IN  IF connection.documentId \notin DOMAIN objectMap
           /\ connection.documentId \in ObjectPrototype
        THEN SetProperty(d.toStringProps, connection.clientId, connection)
        ELSE d.toStringProps

ListenerCount(l, event) == IF event \in DOMAIN l THEN l[event] ELSE 0

\* socket.on(event, ...) is called inside 'if (!(event in this.eventMap))'
registerForEvent_listeners(d, event, connection) ==
    IF ~HasProperty(d.eventMap, event)
    THEN SetProperty(d.listeners, event, ListenerCount(d.listeners, event) + 1)
    ELSE d.listeners

\* objectMap[documentId] inside handleMessage: [defined, props], with
\* defined FALSE for the value undefined
connectionMapOf(d, event, documentId) ==
    IF event \notin DOMAIN d.eventMap THEN [defined |-> FALSE, props |-> EmptyObject]
    ELSE IF documentId \in DOMAIN d.eventMap[event]
    THEN [defined |-> TRUE, props |-> d.eventMap[event][documentId]]
    ELSE IF documentId \in ObjectPrototype
    THEN [defined |-> TRUE, props |-> d.toStringProps]
    ELSE [defined |-> FALSE, props |-> EmptyObject]

\* the for-in loop over the keys left to visit: one dispatchEvent call per
\* key, the k-th with the k-th object cloneDeep returned
RECURSIVE dispatchAll(_, _, _, _, _)
dispatchAll(connectionMap, keys, event, message, k) ==
    IF keys = {} THEN <<>>
    ELSE LET clientId == CHOOSE c \in keys : TRUE
         IN  <<[connection |-> connectionMap[clientId], event |-> event,
                message |-> [content |-> message, object |-> k]]>>
             \o dispatchAll(connectionMap, keys \ {clientId}, event, message, k + 1)

\* the dispatchEvent calls of handleMessage(event, documentId, message); the
\* message the socket handed over is object 0
handleMessage(d, event, documentId, message) ==
    IF event \notin DOMAIN d.eventMap THEN <<>>
    ELSE IF ~connectionMapOf(d, event, documentId).defined THEN <<>>
    ELSE LET connectionMap == connectionMapOf(d, event, documentId).props
         IN  dispatchAll(connectionMap, DOMAIN connectionMap, event, message, 1)

\* the socket calls every listener installed for the event
RECURSIVE socketEmit(_, _, _, _, _)
socketEmit(d, event, documentId, message, listeners) ==
    IF listeners = 0 THEN <<>>
    ELSE handleMessage(d, event, documentId, message)
         \o socketEmit(d, event, documentId, message, listeners - 1)

DocInit ==
    /\ doc = NoDoc
    /\ SegIdle /\ PosIdle /\ MatIdle /\ JsonIdle /\ move = MoveIdle /\ CloneIdle

DocRegisterForEvent ==
    \E event \in Events, connection \in Connections :
        /\ doc.n < MaxRegs
        /\ doc' = [doc EXCEPT
                     !.eventMap = registerForEvent_eventMap(doc, event, connection),
                     !.toStringProps = registerForEvent_toStringProps(doc, event, connection),
                     !.listeners = registerForEvent_listeners(doc, event, connection),
                     !.registered = SetProperty(@, <<event, connection.documentId,
                                                     connection.clientId>>, connection),
                     !.delivered = <<>>,
                     !.last = [NoMessage EXCEPT !.op = "registerForEvent", !.event = event,
                                                !.documentId = connection.documentId,
                                                !.connection = connection.object],
                     !.n = @ + 1]
        /\ UNCHANGED <<segVars, posVars, matVars, jsonVars, moveVars, cloneVars>>

DocSocketMessage ==
    \E event \in Events, documentId \in DocumentIds, message \in Messages :
        /\ doc' = [doc EXCEPT
                     !.delivered = socketEmit(doc, event, documentId, message,
                                              ListenerCount(doc.listeners, event)),
                     !.last = [NoMessage EXCEPT !.op = "message", !.event = event,
                                                !.documentId = documentId,
                                                !.message = message]]
        /\ UNCHANGED <<segVars, posVars, matVars, jsonVars, moveVars, cloneVars>>

DocNext == DocRegisterForEvent \/ DocSocketMessage

SpecDoc == DocInit /\ [][DocNext]_vars

\* the connections registered for (event, documentId)
RegisteredFor(event, documentId) ==
    {doc.registered[key] : key \in {k \in DOMAIN doc.registered :
                                        k[1] = event /\ k[2] = documentId}}

DeliveriesTo(connection) ==
    Cardinality({i \in DOMAIN doc.delivered : doc.delivered[i].connection = connection})

\* C24: after any sequence of registerForEvent calls a socket message for
\* (event, documentId) is dispatched exactly once to each connection
\* registered for that event and documentId, a later registration with the
\* same documentId and clientId replacing the earlier one, and to no other
\* connection; each receives its own copy of the message; the socket
\* listener of an event is installed at most once; a message for an event or
\* document without registration is dropped.
C24_Routing ==
    /\ \A event \in Events : ListenerCount(doc.listeners, event) <= 1
    /\ doc.last.op = "message" =>
          /\ \A connection \in Connections :
                DeliveriesTo(connection) =
                    IF connection \in RegisteredFor(doc.last.event, doc.last.documentId)
                    THEN 1 ELSE 0
          /\ \A i \in DOMAIN doc.delivered :
                /\ doc.delivered[i].event = doc.last.event
                /\ doc.delivered[i].message.content = doc.last.message
                /\ doc.delivered[i].message.object # 0
                /\ \A j \in DOMAIN doc.delivered :
                      i # j => doc.delivered[i].message.object # doc.delivered[j].message.object

====
